---- MODULE Spec2Model ----
(***************************************************************************)
(* seqan3::alignment_range and its iterator                                *)
(* (include/seqan3/alignment/pairwise/alignment_range.hpp).                *)
(*                                                                         *)
(* A range object owns an alignment executor through a unique_ptr and      *)
(* caches the last result fetched from it.  Its iterator holds a pointer   *)
(* to the range and an at_end flag.  Range objects live in named storage   *)
(* locations, executors on the heap, iterators in named variables.         *)
(***************************************************************************)
EXTENDS Integers, Sequences, FiniteSets, TLC

\* ------------------------------------------------------------------ bounds
MaxLen == 2       \* most results one executor yields
ExtraBumps == 2   \* bump() calls made on an executor after its last result

\* ------------------------------------------------------- program constants
DefaultValue == 0 \* value_type cache{}
Null == 0         \* std::unique_ptr<alignment_executor_type> alignment_executor{}

Ranges      == {"A", "B"}          \* storage locations of alignment_range objects
Iterators   == {"it1", "it2"}      \* iterator variables
ExecutorIds == {1, 2}              \* heap addresses handed out by new
NoRange     == "nullptr"           \* alignment_range * range_ptr{}

\* The range never inspects a result, it only moves it into the cache, so
\* the k-th result of the executor at heap address e is given the value
\* Result(e, k): different from the default value and from every other
\* result of every executor alive at the same time.
Result(e, k) == (e - 1) * (MaxLen + 1) + k
Values       == {Result(e, k) : e \in ExecutorIds, k \in 1..MaxLen}

VARIABLES
    range,      \* range[r]: [alive, alignment_executor, cache]
    heap,       \* heap[e]: the executor allocated at address e
    iter,       \* iter[i]: [alive, range_ptr, at_end]
    origin,     \* origin[r]: which constructor or assignment last set range r
    calls,      \* calls[e]: next() calls that reached executor e
    fetched,    \* fetched[e]: next() calls on executor e that returned true
    last        \* the last operation, its operands and its outcome

vars == <<range, heap, iter, origin, calls, fetched, last>>

\* An executor: the results it will yield, how many it has yielded, and how
\* many times bump() was called on it.
FreeCell == [live |-> FALSE, results |-> <<>>, pos |-> 0, bumps |-> 0]
NewExecutor(e, n) ==
    [live |-> TRUE, results |-> [k \in 1..n |-> Result(e, k)], pos |-> 0, bumps |-> 0]

\* Storage that holds no alignment_range object.
DeadRange == [alive |-> FALSE, alignment_executor |-> Null, cache |-> DefaultValue]
\* An iterator variable that holds no iterator.
DeadIterator == [alive |-> FALSE, range_ptr |-> NoRange, at_end |-> TRUE]

\* alignment_executor->bump(): an optional result (a sequence of length 0 or
\* 1) and the executor afterwards.  Exhaustion is permanent.
bump(e) ==
    IF e.pos < Len(e.results)
    THEN [opt |-> <<e.results[e.pos + 1]>>,
          executor |-> [e EXCEPT !.pos = @ + 1, !.bumps = @ + 1]]
    ELSE [opt |-> <<>>,
          executor |-> [e EXCEPT !.bumps = @ + 1]]

\* fetch as it would be if a fetched result were not stored in the cache.
fetch_stale(r) ==
    LET b == bump(heap[range[r].alignment_executor]) IN
    [thrown |-> FALSE,
     ret |-> b.opt # <<>>,
     heap |-> [heap EXCEPT ![range[r].alignment_executor] = b.executor],
     alignment_executor |-> range[r].alignment_executor,
     cache |-> range[r].cache]

\* fetch as it would be if it bumped the executor twice per call.
fetch_twice(r) ==
    LET b == bump(bump(heap[range[r].alignment_executor]).executor) IN
    [thrown |-> FALSE,
     ret |-> b.opt # <<>>,
     heap |-> [heap EXCEPT ![range[r].alignment_executor] = b.executor],
     alignment_executor |-> range[r].alignment_executor,
     cache |-> IF b.opt # <<>> THEN b.opt[1] ELSE range[r].cache]

\* fetch as it would be if it reset the unique_ptr when the executor is
\* exhausted.
fetch_reset(r) ==
    LET b == bump(heap[range[r].alignment_executor]) IN
    [thrown |-> FALSE,
     ret |-> b.opt # <<>>,
     heap |-> [heap EXCEPT ![range[r].alignment_executor] = b.executor],
     alignment_executor |-> IF b.opt # <<>> THEN range[r].alignment_executor ELSE Null,
     cache |-> IF b.opt # <<>> THEN b.opt[1] ELSE range[r].cache]

\* fetch as it would be if it assigned the cache from an empty optional too.
fetch_clear(r) ==
    LET b == bump(heap[range[r].alignment_executor]) IN
    [thrown |-> FALSE,
     ret |-> b.opt # <<>>,
     heap |-> [heap EXCEPT ![range[r].alignment_executor] = b.executor],
     alignment_executor |-> range[r].alignment_executor,
     cache |-> IF b.opt # <<>> THEN b.opt[1] ELSE DefaultValue]

\* fetch as it would be if only the first result were stored in the cache.
fetch_keep_first(r) ==
    LET b == bump(heap[range[r].alignment_executor]) IN
    [thrown |-> FALSE,
     ret |-> b.opt # <<>>,
     heap |-> [heap EXCEPT ![range[r].alignment_executor] = b.executor],
     alignment_executor |-> range[r].alignment_executor,
     cache |-> IF b.opt # <<>> /\ range[r].cache = DefaultValue
               THEN b.opt[1] ELSE range[r].cache]

\* Lines 142-148 of next(), reached with a non-null alignment_executor: one
\* bump(); a result replaces the cache and gives true, none gives false.
\* The unique_ptr is left as it is.
fetch(r) ==
    LET b == bump(heap[range[r].alignment_executor]) IN
    [thrown |-> FALSE,
     ret |-> b.opt # <<>>,
     heap |-> [heap EXCEPT ![range[r].alignment_executor] = b.executor],
     alignment_executor |-> range[r].alignment_executor,
     cache |-> IF b.opt # <<>> THEN b.opt[1] ELSE range[r].cache]

\* next as it would be if a missing executor gave false instead of throwing.
next_silent(r) ==
    IF range[r].alignment_executor = Null
    THEN [thrown |-> FALSE, ret |-> FALSE, heap |-> heap,
          alignment_executor |-> range[r].alignment_executor,
          cache |-> range[r].cache]
    ELSE fetch(r)

\* alignment_range::next() on the object at r: whether it throws, what it
\* returns, and the heap, the unique_ptr and the cache afterwards.
next(r) ==
    IF range[r].alignment_executor = Null
    THEN [thrown |-> TRUE, ret |-> FALSE, heap |-> heap,
          alignment_executor |-> range[r].alignment_executor,
          cache |-> range[r].cache]
    ELSE fetch(r)

\* at_end_after as it would be without the negation.
at_end_after_plain(ret) == ret

\* The value at_end receives in operator++ from the result of next().
at_end_after(ret) == ~ret

\* operator*: the cache of the range the iterator points to.
deref(i) == range[iter[i].range_ptr].cache

\* equals_end as it would be with the flag negated.
equals_end_negated(i) == ~iter[i].at_end

\* operator==(iterator, default_sentinel).
equals_end(i) == iter[i].at_end

\* operator==(default_sentinel, iterator): return rhs == lhs.
end_equals(i) == equals_end(i)

\* not_equals_end as it would be without the negation.
not_equals_end_plain(i) == equals_end(i)

\* operator!=(iterator, default_sentinel): return !(lhs == rhs).
not_equals_end(i) == ~equals_end(i)

\* operator!=(default_sentinel, iterator): return rhs != lhs.
end_not_equals(i) == not_equals_end(i)

\* The four comparisons by the name of their form.
CompareForms == {"eq", "eq_rev", "ne", "ne_rev"}
compare(form, i) ==
    CASE form = "eq"     -> equals_end(i)
      [] form = "eq_rev" -> end_equals(i)
      [] form = "ne"     -> not_equals_end(i)
      [] form = "ne_rev" -> end_not_equals(i)

Outcome(n) == IF n.thrown THEN "NoProducer" ELSE IF n.ret THEN "true" ELSE "false"

\* The call may be made: the bound on bump() calls is not exceeded.
WithinBumps(r) ==
    range[r].alignment_executor # Null
        => heap[range[r].alignment_executor].bumps
               < Len(heap[range[r].alignment_executor].results) + ExtraBumps

\* Ghost counters of the next() call n on range r.
CountCall(r, n, f) ==
    IF n.thrown THEN f ELSE [f EXCEPT ![range[r].alignment_executor] = @ + 1]
CountFetch(r, n, f) ==
    IF n.ret THEN [f EXCEPT ![range[r].alignment_executor] = @ + 1] ELSE f

\* No iterator variable points at storage r.
Unreferenced(r) == \A i \in Iterators : iter[i].range_ptr # r

\* delete of the executor a unique_ptr owns.
Release(h, e) == IF e = Null THEN h ELSE [h EXCEPT ![e] = FreeCell]
Forget(f, e) == IF e = Null THEN f ELSE [f EXCEPT ![e] = 0]

\* moved_from as it would be if the move copied the pointer.
moved_from_copy(old, c) ==
    [alive |-> TRUE, alignment_executor |-> old.alignment_executor, cache |-> c]

\* The state a moved-from object is left in: the unique_ptr is null, the
\* cache is valid but unspecified (unchanged for trivial types).
moved_from(old, c) == [alive |-> TRUE, alignment_executor |-> Null, cache |-> c]
MovedFromCaches(old) == {old.cache, DefaultValue}

\* moved_to as it would be if the move left the cache behind.
moved_to_no_cache(old) ==
    [alive |-> TRUE, alignment_executor |-> old.alignment_executor, cache |-> DefaultValue]

\* The state the destination of a move receives: the source's unique_ptr and
\* the source's cache.
moved_to(old) ==
    [alive |-> TRUE, alignment_executor |-> old.alignment_executor, cache |-> old.cache]

\* new_cell as it would be if the range aliased an executor already in use.
new_cell_alias(h) ==
    IF \E e \in ExecutorIds : h[e].live
    THEN CHOOSE e \in ExecutorIds : h[e].live
    ELSE CHOOSE e \in ExecutorIds : ~h[e].live

\* new alignment_executor_type{...}: a heap cell that is not in use.
HasFreeCell(h) == \E e \in ExecutorIds : ~h[e].live
new_cell(h) ==
    CHOOSE e \in ExecutorIds : ~h[e].live /\ \A f \in ExecutorIds : f < e => h[f].live

Op(op, r, src, i, ret, val) ==
    [op |-> op, r |-> r, src |-> src, i |-> i, ret |-> ret, val |-> val]

Init ==
    /\ range = [r \in Ranges |-> DeadRange]
    /\ heap = [e \in ExecutorIds |-> FreeCell]
    /\ iter = [i \in Iterators |-> DeadIterator]
    /\ origin = [r \in Ranges |-> "none"]
    /\ calls = [e \in ExecutorIds |-> 0]
    /\ fetched = [e \in ExecutorIds |-> 0]
    /\ last = Op("init", NoRange, NoRange, "none", "void", DefaultValue)

\* alignment_range() = default
DefaultConstruct(r) ==
    /\ ~range[r].alive
    /\ Unreferenced(r)
    /\ range' = [range EXCEPT ![r] =
                    [alive |-> TRUE, alignment_executor |-> Null, cache |-> DefaultValue]]
    /\ origin' = [origin EXCEPT ![r] = "default"]
    /\ last' = Op("default_ctor", r, NoRange, "none", "void", DefaultValue)
    /\ UNCHANGED <<heap, iter, calls, fetched>>

\* construct as it would be if the constructor fetched the first result.
construct_primed(e) == [alive |-> TRUE, alignment_executor |-> e, cache |-> Result(e, 1)]

\* explicit alignment_range(alignment_executor_type &&)
construct(e) == [alive |-> TRUE, alignment_executor |-> e, cache |-> DefaultValue]

\* The executor handed over yields n results.
ExecutorConstruct(r, n) ==
    /\ ~range[r].alive
    /\ Unreferenced(r)
    /\ HasFreeCell(heap)
    /\ heap' = [heap EXCEPT ![new_cell(heap)] = NewExecutor(new_cell(heap), n)]
    /\ range' = [range EXCEPT ![r] = construct(new_cell(heap))]
    /\ origin' = [origin EXCEPT ![r] = "executor"]
    /\ last' = Op("executor_ctor", r, NoRange, "none", "void", DefaultValue)
    /\ UNCHANGED <<iter, calls, fetched>>

\* alignment_range(alignment_range &&) = default
MoveConstruct(dst, src) ==
    /\ dst # src
    /\ ~range[dst].alive
    /\ Unreferenced(dst)
    /\ range[src].alive
    /\ \E c \in MovedFromCaches(range[src]) :
        range' = [range EXCEPT ![dst] = moved_to(range[src]),
                               ![src] = moved_from(range[src], c)]
    /\ origin' = [origin EXCEPT ![dst] = "move_constructed", ![src] = "moved_from"]
    /\ last' = Op("move_ctor", dst, src, "none", "void", DefaultValue)
    /\ UNCHANGED <<heap, iter, calls, fetched>>

\* alignment_range & operator=(alignment_range &&) = default
MoveAssign(dst, src) ==
    /\ dst # src
    /\ range[dst].alive
    /\ range[src].alive
    /\ \E c \in MovedFromCaches(range[src]) :
        range' = [range EXCEPT ![dst] = moved_to(range[src]),
                               ![src] = moved_from(range[src], c)]
    /\ heap' = Release(heap, range[dst].alignment_executor)
    /\ calls' = Forget(calls, range[dst].alignment_executor)
    /\ fetched' = Forget(fetched, range[dst].alignment_executor)
    /\ origin' = [origin EXCEPT ![dst] = "move_assigned", ![src] = "moved_from"]
    /\ last' = Op("move_assign", dst, src, "none", "void", DefaultValue)
    /\ UNCHANGED iter

\* ~alignment_range() = default
Destroy(r) ==
    /\ range[r].alive
    /\ range' = [range EXCEPT ![r] = DeadRange]
    /\ heap' = Release(heap, range[r].alignment_executor)
    /\ calls' = Forget(calls, range[r].alignment_executor)
    /\ fetched' = Forget(fetched, range[r].alignment_executor)
    /\ origin' = [origin EXCEPT ![r] = "none"]
    /\ last' = Op("dtor", r, NoRange, "none", "void", DefaultValue)
    /\ UNCHANGED iter

\* primed as it would be if the constructor did not store the flag.
primed_unset(r, ret) == [alive |-> TRUE, range_ptr |-> r, at_end |-> TRUE]

\* primed as it would be if the constructor never recorded exhaustion.
primed_active(r, ret) == [alive |-> TRUE, range_ptr |-> r, at_end |-> FALSE]

\* The iterator alignment_range_iterator(alignment_range & range) leaves
\* behind when next() returned ret.
primed(r, ret) == [alive |-> TRUE, range_ptr |-> r, at_end |-> at_end_after(ret)]

\* Begin as it would be if begin() on a range whose cache holds a result
\* returned an iterator to that result without calling next().
Begin_cached(r, i) ==
    /\ range[r].alive
    /\ ~iter[i].alive
    /\ WithinBumps(r)
    /\ LET n == IF range[r].alignment_executor # Null /\ range[r].cache # DefaultValue
                THEN [thrown |-> FALSE, ret |-> TRUE, heap |-> heap,
                      alignment_executor |-> range[r].alignment_executor,
                      cache |-> range[r].cache]
                ELSE next(r) IN
        /\ heap' = n.heap
        /\ range' = [range EXCEPT ![r].alignment_executor = n.alignment_executor,
                                   ![r].cache = n.cache]
        /\ iter' = IF n.thrown THEN iter ELSE [iter EXCEPT ![i] = primed(r, n.ret)]
        /\ calls' = IF n.heap = heap THEN calls ELSE CountCall(r, n, calls)
        /\ fetched' = IF n.heap = heap THEN fetched ELSE CountFetch(r, n, fetched)
        /\ last' = Op("begin", r, NoRange, i, Outcome(n), DefaultValue)
    /\ UNCHANGED origin

\* begin(): iterator{*this}; the constructor increments once.  When next()
\* throws no iterator comes into being.
Begin(r, i) ==
    /\ range[r].alive
    /\ ~iter[i].alive
    /\ WithinBumps(r)
    /\ LET n == next(r) IN
        /\ heap' = n.heap
        /\ range' = [range EXCEPT ![r].alignment_executor = n.alignment_executor,
                                   ![r].cache = n.cache]
        /\ iter' = IF n.thrown THEN iter ELSE [iter EXCEPT ![i] = primed(r, n.ret)]
        /\ calls' = CountCall(r, n, calls)
        /\ fetched' = CountFetch(r, n, fetched)
        /\ last' = Op("begin", r, NoRange, i, Outcome(n), DefaultValue)
    /\ UNCHANGED origin

\* Increment as it would be if at_end were kept in the range, one flag for
\* all the iterators that point to it.
Increment_shared(i) ==
    /\ iter[i].alive
    /\ iter[i].range_ptr # NoRange
    /\ range[iter[i].range_ptr].alive
    /\ WithinBumps(iter[i].range_ptr)
    /\ LET r == iter[i].range_ptr
           n == next(r) IN
        /\ heap' = n.heap
        /\ range' = [range EXCEPT ![r].alignment_executor = n.alignment_executor,
                                   ![r].cache = n.cache]
        /\ iter' = IF n.thrown THEN iter
                   ELSE [j \in Iterators |->
                            IF iter[j].alive /\ iter[j].range_ptr = r
                            THEN [iter[j] EXCEPT !.at_end = at_end_after(n.ret)]
                            ELSE iter[j]]
        /\ calls' = CountCall(r, n, calls)
        /\ fetched' = CountFetch(r, n, fetched)
        /\ last' = Op("increment", r, NoRange, i, Outcome(n), DefaultValue)
    /\ UNCHANGED origin

\* Increment as it would be if at_end were set before next() is called.
Increment_ends_first(i) ==
    /\ iter[i].alive
    /\ iter[i].range_ptr # NoRange
    /\ range[iter[i].range_ptr].alive
    /\ WithinBumps(iter[i].range_ptr)
    /\ LET r == iter[i].range_ptr
           n == next(r) IN
        /\ heap' = n.heap
        /\ range' = [range EXCEPT ![r].alignment_executor = n.alignment_executor,
                                   ![r].cache = n.cache]
        /\ iter' = IF n.thrown THEN [iter EXCEPT ![i].at_end = TRUE]
                   ELSE [iter EXCEPT ![i].at_end = at_end_after(n.ret)]
        /\ calls' = CountCall(r, n, calls)
        /\ fetched' = CountFetch(r, n, fetched)
        /\ last' = Op("increment", r, NoRange, i, Outcome(n), DefaultValue)
    /\ UNCHANGED origin

\* operator++: at_end = !range_ptr->next().  When next() throws the
\* assignment does not happen.
Increment(i) ==
    /\ iter[i].alive
    /\ iter[i].range_ptr # NoRange
    /\ range[iter[i].range_ptr].alive
    /\ WithinBumps(iter[i].range_ptr)
    /\ LET r == iter[i].range_ptr
           n == next(r) IN
        /\ heap' = n.heap
        /\ range' = [range EXCEPT ![r].alignment_executor = n.alignment_executor,
                                   ![r].cache = n.cache]
        /\ iter' = IF n.thrown THEN iter
                   ELSE [iter EXCEPT ![i].at_end = at_end_after(n.ret)]
        /\ calls' = CountCall(r, n, calls)
        /\ fetched' = CountFetch(r, n, fetched)
        /\ last' = Op("increment", r, NoRange, i, Outcome(n), DefaultValue)
    /\ UNCHANGED origin

\* Dereference as it would be if operator* moved the result out of the cache.
Dereference_consumes(i) ==
    /\ iter[i].alive
    /\ iter[i].range_ptr # NoRange
    /\ range[iter[i].range_ptr].alive
    /\ last' = Op("deref", iter[i].range_ptr, NoRange, i, "void", deref(i))
    /\ range' = [range EXCEPT ![iter[i].range_ptr].cache = DefaultValue]
    /\ UNCHANGED <<heap, iter, origin, calls, fetched>>

\* operator* on an iterator whose range is alive.
Dereference(i) ==
    /\ iter[i].alive
    /\ iter[i].range_ptr # NoRange
    /\ range[iter[i].range_ptr].alive
    /\ last' = Op("deref", iter[i].range_ptr, NoRange, i, "void", deref(i))
    /\ UNCHANGED <<range, heap, iter, origin, calls, fetched>>

\* A comparison of an iterator with the sentinel, in one of the four forms.
\* The range the iterator points to is not touched.
Compare(i, form) ==
    /\ iter[i].alive
    /\ last' = Op(form, iter[i].range_ptr, NoRange, i,
                  IF compare(form, i) THEN "true" ELSE "false", DefaultValue)
    /\ UNCHANGED <<range, heap, iter, origin, calls, fetched>>

\* end(): return {}.
End(r) ==
    /\ range[r].alive
    /\ last' = Op("end", r, NoRange, "none", "void", DefaultValue)
    /\ UNCHANGED <<range, heap, iter, origin, calls, fetched>>

\* CopyIterator as it would be if the copy took only range_ptr and left
\* at_end at its default member initialiser.
CopyIterator_pointer_only(dst, src) ==
    /\ dst # src
    /\ iter[src].alive
    /\ ~iter[dst].alive
    /\ iter' = [iter EXCEPT ![dst] =
                    [alive |-> TRUE, range_ptr |-> iter[src].range_ptr, at_end |-> TRUE]]
    /\ last' = Op("copy", iter[src].range_ptr, NoRange, dst, "void", DefaultValue)
    /\ UNCHANGED <<range, heap, origin, calls, fetched>>

\* alignment_range_iterator(alignment_range_iterator const &) = default
CopyIterator(dst, src) ==
    /\ dst # src
    /\ iter[src].alive
    /\ ~iter[dst].alive
    /\ iter' = [iter EXCEPT ![dst] = iter[src]]
    /\ last' = Op("copy", iter[src].range_ptr, NoRange, dst, "void", DefaultValue)
    /\ UNCHANGED <<range, heap, origin, calls, fetched>>

\* alignment_range_iterator & operator=(alignment_range_iterator const &) = default
AssignIterator(dst, src) ==
    /\ dst # src
    /\ iter[src].alive
    /\ iter[dst].alive
    /\ iter' = [iter EXCEPT ![dst] = iter[src]]
    /\ last' = Op("assign", iter[src].range_ptr, NoRange, dst, "void", DefaultValue)
    /\ UNCHANGED <<range, heap, origin, calls, fetched>>

\* ~alignment_range_iterator() = default
DestroyIterator(i) ==
    /\ iter[i].alive
    /\ iter' = [iter EXCEPT ![i] = DeadIterator]
    /\ last' = Op("iterator_dtor", NoRange, NoRange, i, "void", DefaultValue)
    /\ UNCHANGED <<range, heap, origin, calls, fetched>>

Next ==
    \/ \E r \in Ranges : DefaultConstruct(r)
    \/ \E r \in Ranges, n \in 0..MaxLen : ExecutorConstruct(r, n)
    \/ \E dst \in Ranges, src \in Ranges : MoveConstruct(dst, src)
    \/ \E dst \in Ranges, src \in Ranges : MoveAssign(dst, src)
    \/ \E r \in Ranges : Destroy(r)
    \/ \E r \in Ranges, i \in Iterators : Begin(r, i)
    \/ \E i \in Iterators : Increment(i)
    \/ \E dst \in Iterators, src \in Iterators : CopyIterator(dst, src)
    \/ \E dst \in Iterators, src \in Iterators : AssignIterator(dst, src)
    \/ \E i \in Iterators : DestroyIterator(i)

Spec == Init /\ [][Next]_vars

\* Spec with the operations that only observe: operator*, the comparisons
\* with the sentinel and end().  They change no object, so Spec reaches the
\* same ranges, executors and iterators without them.
ReadNext ==
    \/ Next
    \/ \E i \in Iterators : Dereference(i)
    \/ \E i \in Iterators, form \in CompareForms : Compare(i, form)
    \/ \E r \in Ranges : End(r)

ReadSpec == Init /\ [][ReadNext]_vars

\* ------------------------------------------------------- the consume loop
\* One thread sets up ranges and then runs
\*     for (auto it = r.begin(); it != r.end(); ++it) read *it;
\* over a range whose executor has not been bumped yet.  The position in
\* the loop is the last operation made.
LoopIdle == \A i \in Iterators : ~iter[i].alive
LoopRunning == \E i \in Iterators : iter[i].alive
LoopAtTest(i) == iter[i].alive /\ last.op \in {"begin", "increment"} /\ last.i = i
LoopDone == \E i \in Iterators : LoopAtTest(i) /\ ~not_equals_end(i)

LoopConstruct == LoopIdle /\ \E r \in Ranges, n \in 0..MaxLen : ExecutorConstruct(r, n)
LoopMoveConstruct == LoopIdle /\ \E dst \in Ranges, src \in Ranges : MoveConstruct(dst, src)
LoopMoveAssign == LoopIdle /\ \E dst \in Ranges, src \in Ranges : MoveAssign(dst, src)
LoopDestroy == LoopIdle /\ \E r \in Ranges : Destroy(r)

\* auto it = r.begin()
LoopBegin ==
    /\ LoopIdle
    /\ \E r \in Ranges, i \in Iterators :
        /\ range[r].alignment_executor # Null
        /\ heap[range[r].alignment_executor].bumps = 0
        /\ Begin(r, i)

\* it != r.end() holds: read *it
LoopRead == \E i \in Iterators : LoopAtTest(i) /\ not_equals_end(i) /\ Dereference(i)

\* ++it
LoopAdvance == \E i \in Iterators : last.op = "deref" /\ last.i = i /\ Increment(i)

LoopNext ==
    \/ LoopConstruct
    \/ LoopMoveConstruct
    \/ LoopMoveAssign
    \/ LoopDestroy
    \/ LoopBegin
    \/ LoopRead
    \/ LoopAdvance

\* The thread that entered the loop keeps executing it.
LoopSpec == Init /\ [][LoopNext]_vars /\ WF_vars(LoopRead \/ LoopAdvance)

\* ----------------------------------------------------------------- claims
\* The unique_ptr of the range at r.
executor_of(r) == range[r].alignment_executor
\* The last operation called next(): begin() or operator++.
CalledNext(l) == l.op \in {"begin", "increment"}
MoveOps == {"move_ctor", "move_assign"}
MovedInto == {"move_constructed", "move_assigned"}
OtherRange(r) == CHOOSE q \in Ranges : q # r
\* Iterator variable i holds the same iterator before and after the step: it
\* is alive on both sides and the step does not assign to it.
SameIterator(i) ==
    /\ iter[i].alive
    /\ iter'[i].alive
    /\ ~(last'.op = "assign" /\ last'.i = i)

\* C1 (priming): right after begin() made the first bump of an executor that
\* yields at least one result, the new iterator is not equal to the sentinel
\* and dereferences to the executor's first result.
C1_Priming ==
    (last.op = "begin" /\ last.ret # "NoProducer") =>
        LET e == heap[executor_of(last.r)] IN
        (e.bumps = 1 /\ Len(e.results) >= 1) =>
            /\ iter[last.i].alive
            /\ ~equals_end(last.i)
            /\ deref(last.i) = e.results[1]

C1_Witness ==
    /\ last.op = "begin"
    /\ origin[last.r] = "executor"
    /\ executor_of(last.r) # Null
    /\ heap[executor_of(last.r)].bumps = 1
    /\ Len(heap[executor_of(last.r)].results) = MaxLen
    /\ ~equals_end(last.i)
    /\ deref(last.i) = heap[executor_of(last.r)].results[1]

\* C2 (cache freshness): whenever next() has returned true N >= 1 times on
\* an executor, every iterator on the range that owns it dereferences to the
\* N-th result of that executor.
C2_CacheFreshness ==
    \A i \in Iterators :
        (/\ iter[i].alive
         /\ range[iter[i].range_ptr].alive
         /\ executor_of(iter[i].range_ptr) # Null
         /\ fetched[executor_of(iter[i].range_ptr)] >= 1) =>
            LET e == executor_of(iter[i].range_ptr) IN
            /\ fetched[e] <= Len(heap[e].results)
            /\ deref(i) = heap[e].results[fetched[e]]

C2_Witness ==
    \E i \in Iterators :
        /\ iter[i].alive
        /\ executor_of(iter[i].range_ptr) # Null
        /\ LET e == executor_of(iter[i].range_ptr) IN
            /\ fetched[e] = 2
            /\ deref(i) = heap[e].results[2]
            /\ last.op = "increment" /\ last.i = i /\ last.ret = "true"

\* C3 as stated (exhaustion permanence): an iterator that equals the
\* sentinel equals the sentinel after every step, whatever the operation.
C3_Original ==
    [][\A i \in Iterators :
        (SameIterator(i) /\ equals_end(i)) => iter'[i].at_end]_vars

\* C3 as amended: an iterator that equals the sentinel equals the sentinel
\* after every step, further increments included, as long as the range it
\* points to has not been the destination of a move assignment.
C3_ExhaustionPermanence ==
    [][\A i \in Iterators :
        (/\ SameIterator(i)
         /\ equals_end(i)
         /\ origin[iter[i].range_ptr] # "move_assigned") => iter'[i].at_end]_vars

C3_Witness ==
    /\ last.op = "increment"
    /\ iter[last.i].alive
    /\ equals_end(last.i)
    /\ origin[last.r] = "executor"
    /\ calls[executor_of(last.r)] = Len(heap[executor_of(last.r)].results) + 2

\* C4 (no-producer failure): a default-constructed range, as long as nothing
\* is moved into it, owns no executor and every next() call on it throws.
C4_NoProducerFailure ==
    \A r \in Ranges :
        origin[r] = "default" =>
            /\ executor_of(r) = Null
            /\ (CalledNext(last) /\ last.r = r) => last.ret = "NoProducer"

C4_Witness ==
    /\ last.op = "begin"
    /\ origin[last.r] = "default"
    /\ last.ret = "NoProducer"

\* C5 (move empties the source): a moved-from range, as long as nothing is
\* moved into it, owns no executor and every next() call on it throws, also
\* through an iterator obtained before the move.
C5_MoveEmptiesSource ==
    \A r \in Ranges :
        origin[r] = "moved_from" =>
            /\ executor_of(r) = Null
            /\ (CalledNext(last) /\ last.r = r) => last.ret = "NoProducer"

C5_Witness ==
    /\ last.op = "increment"
    /\ origin[last.r] = "moved_from"
    /\ last.ret = "NoProducer"
    /\ executor_of(OtherRange(last.r)) # Null

\* C6 (move continues iteration): a move gives the destination the source's
\* executor, untouched, and the source's cache, which is the k-th result
\* when k results were fetched; the next successful next() on a moved-into
\* range stores result k+1.
C6_MoveContinues ==
    [][/\ last'.op \in MoveOps =>
            LET e == executor_of(last'.src) IN
            /\ range'[last'.r].alignment_executor = e
            /\ range'[last'.r].cache = range[last'.src].cache
            /\ e # Null =>
                /\ heap'[e] = heap[e]
                /\ fetched'[e] = fetched[e]
                /\ fetched[e] >= 1 =>
                       range'[last'.r].cache = heap[e].results[fetched[e]]
       /\ (/\ CalledNext(last')
           /\ last'.ret = "true"
           /\ origin[last'.r] \in MovedInto) =>
            LET e == executor_of(last'.r) IN
            /\ fetched'[e] = fetched[e] + 1
            /\ range'[last'.r].cache = heap[e].results[fetched[e] + 1]]_vars

C6_Witness ==
    /\ last.op = "begin"
    /\ last.ret = "true"
    /\ origin[last.r] = "move_constructed"
    /\ origin[OtherRange(last.r)] = "moved_from"
    /\ \E i \in Iterators : iter[i].alive /\ iter[i].range_ptr = OtherRange(last.r)
    /\ calls[executor_of(last.r)] = 2
    /\ fetched[executor_of(last.r)] = 2
    /\ deref(last.i) = heap[executor_of(last.r)].results[2]

\* C7 (exclusive ownership): no two ranges own the same executor, and an
\* owned executor is a live heap object owned by a live range.
C7_ExclusiveOwnership ==
    \A r \in Ranges :
        executor_of(r) # Null =>
            /\ range[r].alive
            /\ heap[executor_of(r)].live
            /\ \A q \in Ranges : q # r => executor_of(q) # executor_of(r)

C7_Witness ==
    /\ last.op = "executor_ctor"
    /\ origin[OtherRange(last.r)] \in MovedInto
    /\ executor_of(last.r) # Null
    /\ executor_of(OtherRange(last.r)) # Null

\* C8 (one pull per advance): for every executor the number of bump() calls
\* equals the number of next() calls that reached it without throwing.
C8_OnePullPerAdvance ==
    \A e \in ExecutorIds : heap[e].bumps = calls[e]

C8_Witness ==
    /\ last.op = "increment"
    /\ last.ret = "false"
    /\ executor_of(last.r) # Null
    /\ heap[executor_of(last.r)].bumps = MaxLen + 1
    /\ calls[executor_of(last.r)] = MaxLen + 1

\* C9 (NoProducer is the only error): next() throws exactly when the range
\* owns no executor; otherwise it returns true or false and keeps the
\* executor, and once the executor is exhausted it returns false.
C9_OnlyNoProducer ==
    CalledNext(last) =>
        /\ last.ret \in {"true", "false", "NoProducer"}
        /\ (last.ret = "NoProducer") <=> (executor_of(last.r) = Null)
        /\ executor_of(last.r) # Null =>
            LET e == heap[executor_of(last.r)] IN
            /\ e.live
            /\ e.bumps > Len(e.results) => last.ret = "false"
            /\ e.bumps <= Len(e.results) => last.ret = "true"

C9_Witness ==
    /\ last.op = "increment"
    /\ last.ret = "false"
    /\ executor_of(last.r) # Null
    /\ heap[executor_of(last.r)].bumps = Len(heap[executor_of(last.r)].results) + 2

\* C10 (exhausting advance keeps the cache): a next() call that returns
\* false leaves the cache as it was, which is the last fetched result, or
\* the default value when nothing was fetched.
C10_ExhaustedKeepsCache ==
    [][(CalledNext(last') /\ last'.ret = "false") =>
        LET r == last'.r
            e == executor_of(last'.r) IN
        /\ range'[r].cache = range[r].cache
        /\ range'[r].cache = IF fetched[e] = 0 THEN DefaultValue
                             ELSE heap[e].results[fetched[e]]]_vars

C10_Witness ==
    /\ last.op = "increment"
    /\ last.ret = "false"
    /\ fetched[executor_of(last.r)] = MaxLen
    /\ range[last.r].cache = heap[executor_of(last.r)].results[MaxLen]
    /\ range[last.r].cache # DefaultValue

\* C11 (immediate exhaustion): the iterator begin() returns equals the
\* sentinel exactly when the executor had no result left when begin() was
\* called; for an executor that yields nothing the priming next() returns
\* false and the iterator equals the sentinel at once.
C11_ImmediateExhaustion ==
    [][(last'.op = "begin" /\ last'.ret # "NoProducer") =>
        LET e == heap[executor_of(last'.r)] IN
        /\ iter'[last'.i].alive
        /\ iter'[last'.i].range_ptr = last'.r
        /\ iter'[last'.i].at_end <=> (e.pos = Len(e.results))
        /\ (last'.ret = "false") <=> (e.pos = Len(e.results))
        /\ Len(e.results) = 0 => (last'.ret = "false" /\ iter'[last'.i].at_end)]_vars

C11_Witness ==
    /\ last.op = "begin"
    /\ last.ret = "false"
    /\ origin[last.r] = "executor"
    /\ Len(heap[executor_of(last.r)].results) = 0
    /\ calls[executor_of(last.r)] = 1
    /\ equals_end(last.i)

\* C12 (the consume loop terminates): over an executor that yields n results
\* the loop reaches it == end(); each read returns the result fetched last,
\* every next() before it having returned true; the operator++ calls return
\* true except the n-th, which returns false; at the end next() was called
\* n + 1 times, bump() n + 1 times, and n results were fetched.
C12_ConsumeLoop ==
    /\ LoopRunning ~> LoopDone
    /\ [](LoopDone =>
            LET e == executor_of(last.r) IN
            /\ calls[e] = Len(heap[e].results) + 1
            /\ heap[e].bumps = Len(heap[e].results) + 1
            /\ fetched[e] = Len(heap[e].results))
    /\ [][/\ last'.op = "deref" =>
                LET e == executor_of(last'.r) IN
                /\ fetched[e] >= 1
                /\ fetched[e] = calls[e]
                /\ last'.val = heap[e].results[fetched[e]]
          /\ last'.op = "increment" =>
                LET e == executor_of(last'.r) IN
                (last'.ret = "true") <=> (calls[e] < Len(heap[e].results))]_vars

C12_Witness ==
    /\ LoopDone
    /\ last.op = "increment"
    /\ Len(heap[executor_of(last.r)].results) = MaxLen
    /\ calls[executor_of(last.r)] = MaxLen + 1
    /\ range[last.r].cache = heap[executor_of(last.r)].results[MaxLen]

\* C13 (construction is lazy): a constructor calls neither next() nor
\* bump().  A default-constructed range has no executor and a default cache;
\* a range constructed from an executor has, until the first begin() or
\* operator++ on it, an executor that was never bumped and a default cache;
\* and the constructor leaves every other executor's counters as they were.
C13_LazyConstruction ==
    /\ [](\A r \in Ranges :
            /\ origin[r] = "default" =>
                    range[r].alignment_executor = Null /\ range[r].cache = DefaultValue
            /\ (origin[r] = "executor" /\ calls[executor_of(r)] = 0) =>
                    /\ heap[executor_of(r)].bumps = 0
                    /\ heap[executor_of(r)].pos = 0
                    /\ fetched[executor_of(r)] = 0
                    /\ range[r].cache = DefaultValue)
    /\ [][last'.op \in {"default_ctor", "executor_ctor"} =>
            /\ calls' = calls
            /\ fetched' = fetched
            /\ \A e \in ExecutorIds : heap[e].live => heap'[e] = heap[e]
            /\ last'.op = "executor_ctor" => calls'[range'[last'.r].alignment_executor] = 0]_vars

C13_Witness ==
    /\ last.op = "executor_ctor"
    /\ Len(heap[executor_of(last.r)].results) = MaxLen
    /\ heap[executor_of(last.r)].bumps = 0
    /\ range[last.r].cache = DefaultValue
    /\ \E e \in ExecutorIds : calls[e] > 0

\* C14 (reads are free of side effects): operator*, the four comparisons
\* with the sentinel and end() leave every range (its unique_ptr and its
\* cache), every executor, the counts of next() calls and every iterator's
\* at_end as they were; operator* returns the cache of the range, so a
\* dereference right after another of the same range returns the same value.
C14_ReadsArePure ==
    [][last'.op \in ({"deref", "end"} \cup CompareForms) =>
        /\ range' = range
        /\ heap' = heap
        /\ iter' = iter
        /\ calls' = calls
        /\ fetched' = fetched
        /\ last'.op = "deref" => last'.val = range[last'.r].cache
        /\ (last'.op = "deref" /\ last.op = "deref" /\ last.r = last'.r) =>
                last'.val = last.val]_vars

C14_Witness ==
    /\ last.op = "deref"
    /\ last.val = range[last.r].cache
    /\ last.val # DefaultValue
    /\ executor_of(last.r) # Null
    /\ fetched[executor_of(last.r)] = 2
    /\ \A i \in Iterators : iter[i].alive /\ iter[i].range_ptr = last.r

\* C15 (comparison): operator==(iterator, sentinel) is true exactly when
\* the iterator's at_end is set, operator==(sentinel, iterator) gives the
\* same, and both operator!= forms give the negation.
C15_Comparison ==
    [][last'.op \in CompareForms =>
        /\ last'.op \in {"eq", "eq_rev"} =>
                ((last'.ret = "true") <=> iter[last'.i].at_end)
        /\ last'.op \in {"ne", "ne_rev"} =>
                ((last'.ret = "true") <=> ~iter[last'.i].at_end)
        /\ end_equals(last'.i) <=> equals_end(last'.i)
        /\ end_not_equals(last'.i) <=> not_equals_end(last'.i)
        /\ not_equals_end(last'.i) <=> ~equals_end(last'.i)]_vars

C15_Witness ==
    /\ last.op = "ne_rev"
    /\ last.ret = "false"
    /\ iter[last.i].alive
    /\ iter[last.i].at_end
    /\ \E j \in Iterators : iter[j].alive /\ ~iter[j].at_end /\ end_not_equals(j)

\* C16 (shared mutation): iterators that point to the same range
\* dereference to the same value, and after an operator++ of one of them
\* whose next() returned true every iterator on that range dereferences to
\* the result just fetched, which is not the value it showed before.
C16_SharedMutation ==
    /\ [](\A i \in Iterators, j \in Iterators :
            (/\ iter[i].alive /\ iter[j].alive
             /\ iter[i].range_ptr = iter[j].range_ptr
             /\ iter[i].range_ptr # NoRange) => deref(i) = deref(j))
    /\ [][(last'.op = "increment" /\ last'.ret = "true") =>
            \A j \in Iterators :
                (iter[j].alive /\ iter[j].range_ptr = last'.r) =>
                    LET e == executor_of(last'.r) IN
                    /\ deref(j)' = heap[e].results[heap[e].pos + 1]
                    /\ deref(j)' = heap'[e].results[fetched'[e]]
                    /\ deref(j)' # deref(j)]_vars

C16_Witness ==
    /\ last.op = "increment"
    /\ last.ret = "true"
    /\ \E j \in Iterators :
        /\ j # last.i
        /\ iter[j].alive
        /\ iter[j].range_ptr = last.r
        /\ deref(j) = heap[executor_of(last.r)].results[2]
        /\ fetched[executor_of(last.r)] = 2

\* C17 (iterator copy and destruction are pure): a copy, by construction or
\* by assignment, has the range_ptr and the at_end of its source and leaves
\* the source as it was; neither a copy nor the destruction of an iterator
\* calls next() or changes a range, an executor or another iterator.
C17_CopyAndDestroyPure ==
    [][last'.op \in {"copy", "assign", "iterator_dtor"} =>
        /\ range' = range
        /\ heap' = heap
        /\ calls' = calls
        /\ fetched' = fetched
        /\ \A j \in Iterators \ {last'.i} : iter'[j] = iter[j]
        /\ last'.op \in {"copy", "assign"} =>
                \E src \in Iterators \ {last'.i} :
                    /\ iter[src].alive
                    /\ iter'[last'.i].alive
                    /\ iter'[last'.i].range_ptr = iter[src].range_ptr
                    /\ iter'[last'.i].at_end = iter[src].at_end
        /\ last'.op = "iterator_dtor" => ~iter'[last'.i].alive]_vars

C17_Witness ==
    /\ last.op = "copy"
    /\ \A i \in Iterators : iter[i].alive /\ ~iter[i].at_end /\ iter[i].range_ptr = last.r
    /\ executor_of(last.r) # Null
    /\ calls[executor_of(last.r)] = 1
    /\ range[last.r].cache = heap[executor_of(last.r)].results[1]

\* C18 (a failed advance changes nothing): a begin() or operator++ whose
\* next() throws leaves every iterator's at_end, every range's cache and
\* unique_ptr and every executor as they were and counts as no call that
\* reached an executor; begin() creates no iterator; an iterator that was
\* not equal to the sentinel before the failed operator++ is not afterwards.
C18_FailedAdvanceChangesNothing ==
    [][last'.ret = "NoProducer" =>
        /\ last'.op \in {"begin", "increment"}
        /\ range[last'.r].alignment_executor = Null
        /\ iter' = iter
        /\ range' = range
        /\ heap' = heap
        /\ calls' = calls
        /\ fetched' = fetched
        /\ \A i \in Iterators :
                (last'.op = "increment" /\ last'.i = i /\ not_equals_end(i)) =>
                    not_equals_end(i)']_vars

C18_Witness ==
    /\ last.op = "increment"
    /\ last.ret = "NoProducer"
    /\ iter[last.i].alive
    /\ iter[last.i].range_ptr = last.r
    /\ not_equals_end(last.i)
    /\ range[last.r].cache # DefaultValue

C20_AtEndPerIterator ==
    [][\A j \in Iterators :
        (SameIterator(j) /\ ~(last'.op = "increment" /\ last'.i = j)) =>
            iter'[j].at_end = iter[j].at_end]_vars

C20_Witness ==
    /\ last.op = "increment"
    /\ last.ret = "false"
    /\ equals_end(last.i)
    /\ \E j \in Iterators :
        /\ j # last.i
        /\ iter[j].alive
        /\ iter[j].range_ptr = last.r
        /\ not_equals_end(j)
        /\ heap[executor_of(last.r)].pos = Len(heap[executor_of(last.r)].results)
        /\ Len(heap[executor_of(last.r)].results) > 0
====
